---- MODULE Spec2Model ----
\* Verification model of whisker: the event log (events.Store.Append / ReadAll
\* over whisker_events, Store-level and Session-level writers) and the
\* projection runtime (Worker, CheckpointStore, Poller, Daemon, Rebuild).
EXTENDS Integers, Sequences, FiniteSets, TLC

\* ------------------------------------------------------------------ bounds
MaxPos == 3          \* identity values handed out by whisker_events
MaxBatch == 2        \* longest evts slice passed to Append
MaxNegative == 1     \* how far below 0 an expectedVersion passed to Append goes
MaxExpected == 1     \* largest expectedVersion passed to Append
MaxRebuilds == 1     \* calls of Daemon.Rebuild
MaxFailures == 5     \* consecutive failing subscriber.Process calls of a worker
MaxLog == 2          \* events appended while the projection runtime is observed
MaxLocks == 2        \* advisory locks one database session accumulates
MaxStoreFailures == 1 \* consecutive Process failures of a worker outside Flaky
MaxConfigured == 2   \* largest n passed to WithBatchSize
MaxVersion == 2      \* largest version a document row reaches
MaxIds == 2          \* longest id list passed to LoadMany
MaxCalls == 2        \* calls of Projection.Process on one read model

\* ------------------------------------------------------- program constants
maxRetries == 5
batchSize == 100
maxTail == 54        \* {0,54} of the collection-name pattern
maxBatchSize == 1000 \* defaultConfig of the Store

\* ------------------------------------------------------------- universes
Writers == {"w1", "w2"}
SessionWriters == {"w2"}   \* w1 always writes through the pool
Streams == {"s1", "s2"}
Types == {"A", "B"}
EventTypes == {"A"}
DaemonWorkers == {"d1", "d2"}
RebuildWorker == "rb"
Workers == DaemonWorkers \cup {RebuildWorker}
Flaky == {"d1", "rb"}      \* workers whose subscriber.Process may fail
Cancellable == {"d1"}      \* workers whose Daemon context may be cancelled
Conns == {"c1", "c2"}
NoTx == "committed"
NoConn == "nil"
Ids == {"x", "y"}
EmptyId == ""
Data == {"p", "q"}
EventsIndex == "idx_whisker_events_global_position"
CollectionIndex == "idx_whisker_collection_field"
CreateIndexConcurrently == "CREATE INDEX CONCURRENTLY"

VARIABLES
    events,       \* rows of whisker_events
    nextGp,       \* next value of the global_position identity
    sess,         \* per writer: state of its Session transaction
    wpc,          \* per writer: position inside Append
    wargs,        \* per writer: arguments of the Append in progress
    wres,         \* per writer: result of its last Append
    wcur,         \* per writer: stream version it saw when Append was called
    checkpoint,   \* the subscriber's row of whisker_projection_checkpoints
    lockCount,    \* per connection: advisory locks its session holds
    connOwner,    \* per connection: the worker it is checked out to
    lockConn,     \* per worker: Worker.lockConn
    granted,      \* per worker: lock granted and not yet unlocked
    pc,           \* per worker: position in drainBatches / Rebuild
    pos,          \* per worker: position loaded by ProcessBatch
    evts,         \* per worker: batch polled by ProcessBatch
    consecutiveFailures, \* per worker: Worker.consecutiveFailures
    cancelled,    \* per worker: its context is cancelled
    delivered,    \* global positions passed to a successful Process
    drainEnd,     \* per worker: how its last drain ended
    pollMax,      \* per worker: largest matching position its last poll could see
    tableExists,  \* the read-model table whisker_<name> exists
    rebuilds,     \* calls of Rebuild that have returned
    ret,          \* per worker: n returned by its last ProcessBatch
    table,        \* global positions of the events applied to the table
    name,         \* the subscriber's Name()
    config,       \* the Daemons' daemonConfig
    versioned,    \* the document type of the collection has a version field
    docs,         \* committed rows of whisker_<name> written through a collection
    pend,         \* per writer: rows its open transaction has written
    tableTx,      \* the writer whose open transaction created whisker_<name>
    memo,         \* the Store's Bootstrap.tables holds whisker_<name>
    smemo,        \* per writer: its Session's Bootstrap.tables holds it
    cver,         \* per writer: version field of its document after its call
    many,         \* what the last LoadMany returned
    won,          \* versioned Updates that succeeded: committed, open, undone
    txEnds,       \* per writer: tx.Commit / tx.Rollback calls on its Session
    indexes,      \* the document type of the collection declares an index
    imemo,        \* the Store's Bootstrap.indexes
    simemo,       \* per writer: its Session's Bootstrap.indexes
    sent,         \* per writer: the statements its last collection or ReadAll
                  \* call sent, and inTransaction() of the executor they went to
    proc,         \* the call of Projection.Process in progress
    states        \* per stream: the row of the read model LoadState reads

evVars == <<events, nextGp, sess, wpc, wargs, wres, wcur>>
projVars == <<checkpoint, lockCount, connOwner, lockConn, granted, pc, pos,
              evts, consecutiveFailures, cancelled, delivered, drainEnd,
              pollMax, rebuilds, ret, table>>
cfgVars == <<name, config, versioned>>
docVars == <<docs, pend, tableTx, memo, smemo, cver, many, won, txEnds>>
idxVars == <<indexes, imemo, simemo, sent>>
procVars == <<proc, states>>
otherVars == <<cfgVars, docVars, idxVars, procVars>>
vars == <<evVars, projVars, tableExists, otherVars>>

\* ------------------------------------------------------------- names
\* a name is the sequence of its characters; the samples stand for a letter,
\* a digit, the underscore and a character outside [A-Za-z0-9_]
Names == {<<"a">>, <<"a", "_", "1">>, <<"1", "a">>, <<"a", ";">>, <<>>}
DefaultName == <<"a", "_", "1">>
Letters == {"a"}
WordChars == {"a", "1", "_"}

\* validName.MatchString(name) for ^[a-zA-Z][a-zA-Z0-9_]{0,54}$
ValidateCollectionName(nm) ==
    /\ Len(nm) >= 1
    /\ nm[1] \in Letters
    /\ \A i \in 2..Len(nm) : nm[i] \in WordChars
    /\ Len(nm) - 1 <= maxTail

\* ------------------------------------------------------ daemon options
\* NewDaemon's cfg before the options are applied
DefaultConfig == [batchSize |-> 100]

\* the option WithBatchSize(n) applied to cfg
WithBatchSize(cfg, n) == [cfg EXCEPT !.batchSize = n]

\* ------------------------------------------------------------- helpers
Max(S) == CHOOSE x \in S : \A y \in S : y <= x

Range(s) == {s[i] : i \in 1..Len(s)}

\* rows a backend can see: committed ones and those of its own transaction
Visible(w) == {r \in events : r.tx = NoTx \/ r.tx = w}

Committed == {r \in events : r.tx = NoTx}

\* SELECT COALESCE(MAX(version), 0) FROM whisker_events WHERE stream_id = $1
CurrentVersion(w, s) ==
    LET vs == {r.version : r \in {x \in Visible(w) : x.stream = s}}
    IN IF vs = {} THEN 0 ELSE Max(vs)

\* an insert loop that starts one version too far
AppendVersionsSkipOne(ev, n) == {ev + i + 2 : i \in 0..(n - 1)}

\* versions expectedVersion+1 .. expectedVersion+n built by the insert loop
AppendVersions(ev, n) == {ev + i + 1 : i \in 0..(n - 1)}

\* ================================================================ event log
\* A writer is a client of the Store. With sess[w] = "none" its Append goes to
\* the pool (every statement its own transaction); after Store.Session its
\* Appends run inside the session's transaction.

\* rows the multi-row INSERT of Append builds, in order
NewRows(w, s, ev, tys) ==
    {[stream |-> s, version |-> ev + i, type |-> tys[i],
      gp |-> nextGp + i - 1, tx |-> w] : i \in 1..Len(tys)}

\* rows of another open transaction holding a key the insert needs
BlockedBy(w, s, vs) ==
    {r \in events : r.stream = s /\ r.version \in vs /\ r.tx \notin {NoTx, w}}

\* a table without its unique constraint
DuplicatesNone(w, s, vs) == {}

\* rows the writer can see that hold a key the insert needs (SQLSTATE 23505)
Duplicates(w, s, vs) ==
    {r \in Visible(w) : r.stream = s /\ r.version \in vs}

\* wargs of a writer that is not inside Append
NoArgs == [stream |-> "s1", ev |-> 0, tys |-> <<>>]

\* the transaction of tx commits: its rows become visible to everyone
CommitRows(tx) ==
    {IF r.tx = tx THEN [r EXCEPT !.tx = NoTx] ELSE r : r \in events}

\* the transaction of tx rolls back: its rows vanish, their positions are burnt
RollbackRows(tx) == {r \in events : r.tx # tx}

\* a row of whisker_<name>, and the absence of one
Row(d, v) == [present |-> TRUE, data |-> d, version |-> v]

NoRow == [present |-> FALSE, data |-> "", version |-> 0]

\* the writer's calls go through the transaction of its Session
InTx(w) == sess[w] \in {"open", "aborted"}

\* a COMMIT that leaves the document rows behind
CommitDocsNone(tx) == docs

\* the rows of tx's transaction replace the committed ones
CommitDocs(tx) ==
    [i \in Ids |-> IF i \in DOMAIN pend[tx] THEN pend[tx][i] ELSE docs[i]]

\* the Updates of tx's transaction stay in effect / are undone
CommitWon(tx) ==
    {IF u.tx = tx THEN [u EXCEPT !.tx = NoTx] ELSE u : u \in won}

RollbackWon(tx) ==
    {IF u.tx = tx THEN [u EXCEPT !.tx = "undone"] ELSE u : u \in won}

\* the closed test that never fires
IsClosedNever(w) == FALSE

\* if s.closed
IsClosed(w) == sess[w] = "closed"

\* Store.Session: a new transaction and a fresh Bootstrap
SessionBegin(w) ==
    /\ sess[w] \in {"none", "closed"}
    /\ wpc[w] = "idle"
    /\ sess' = [sess EXCEPT ![w] = "open"]
    /\ smemo' = [smemo EXCEPT ![w] = FALSE]
    /\ txEnds' = [txEnds EXCEPT ![w] = 0]
    /\ simemo' = [simemo EXCEPT ![w] = {}]
    /\ UNCHANGED <<events, nextGp, wpc, wargs, wres, wcur>>
    /\ UNCHANGED <<projVars, tableExists, cfgVars, procVars>>
    /\ UNCHANGED <<docs, pend, tableTx, memo, cver, many, won>>
    /\ UNCHANGED <<indexes, imemo, sent>>

\* Append up to the version check
AppendCheck(w, s, ev, tys) ==
    /\ wpc[w] = "idle"
    /\ IF Len(tys) = 0
       THEN /\ wres' = [wres EXCEPT ![w] = "EmptyBatch"]
            /\ UNCHANGED <<wpc, wargs, wcur>>
       ELSE IF sess[w] = "aborted"
       THEN /\ wres' = [wres EXCEPT ![w] = "TxAborted"]
            /\ UNCHANGED <<wpc, wargs, wcur>>
       ELSE IF ev > 0 /\ CurrentVersion(w, s) # ev
       THEN /\ wres' = [wres EXCEPT ![w] = "ConcurrencyConflict"]
            /\ UNCHANGED <<wpc, wargs, wcur>>
       ELSE /\ UNCHANGED wres
            /\ wpc' = [wpc EXCEPT ![w] = "insert"]
            /\ wargs' = [wargs EXCEPT ![w] =
                   [stream |-> s, ev |-> ev, tys |-> tys]]
            /\ wcur' = [wcur EXCEPT ![w] = CurrentVersion(w, s)]
    /\ UNCHANGED <<events, nextGp, sess>>
    /\ UNCHANGED <<projVars, tableExists, otherVars>>

\* Append from the INSERT to its return (a pool writer still has to commit)
AppendInsert(w) ==
    LET s == wargs[w].stream
        ev == wargs[w].ev
        tys == wargs[w].tys
        vs == AppendVersions(ev, Len(tys))
    IN
    /\ wpc[w] = "insert"
    /\ BlockedBy(w, s, vs) = {}
    /\ nextGp + Len(tys) - 1 <= MaxPos
    /\ nextGp' = nextGp + Len(tys)
    /\ IF Duplicates(w, s, vs) # {}
       THEN /\ wres' = [wres EXCEPT ![w] =
                   IF ev = 0 THEN "StreamExists" ELSE "ConcurrencyConflict"]
            /\ wpc' = [wpc EXCEPT ![w] = "idle"]
            /\ sess' = [sess EXCEPT ![w] =
                   IF sess[w] = "open" THEN "aborted" ELSE sess[w]]
            /\ UNCHANGED events
       ELSE /\ events' = events \cup NewRows(w, s, ev, tys)
            /\ IF sess[w] = "open"
               THEN /\ wres' = [wres EXCEPT ![w] = "ok"]
                    /\ wpc' = [wpc EXCEPT ![w] = "idle"]
               ELSE /\ wpc' = [wpc EXCEPT ![w] = "commit"]
                    /\ UNCHANGED wres
            /\ UNCHANGED sess
    /\ IF wpc'[w] = "idle"
       THEN /\ wargs' = [wargs EXCEPT ![w] = NoArgs]
            /\ wcur' = [wcur EXCEPT ![w] = 0]
       ELSE UNCHANGED <<wargs, wcur>>
    /\ UNCHANGED <<projVars, tableExists, otherVars>>

\* Append from its INSERT on, for a call that reaches it with nothing to wait
\* for: what it returns, the rows it leaves and the state it leaves the
\* writer's transaction in
InsertOutcome(w, s, ev, tys) ==
    IF Duplicates(w, s, AppendVersions(ev, Len(tys))) # {}
    THEN [res |-> IF ev = 0 THEN "StreamExists" ELSE "ConcurrencyConflict",
          events |-> events,
          sess |-> IF sess[w] = "open" THEN "aborted" ELSE sess[w]]
    ELSE [res |-> "ok",
          events |-> events \cup
                     {[r EXCEPT !.tx = IF sess[w] = "open" THEN w ELSE NoTx] :
                        r \in NewRows(w, s, ev, tys)},
          sess |-> sess[w]]

\* the implicit transaction of a pool writer's INSERT commits; Append returns
AppendCommit(w) ==
    /\ wpc[w] = "commit"
    /\ events' = CommitRows(w)
    /\ wres' = [wres EXCEPT ![w] = "ok"]
    /\ wpc' = [wpc EXCEPT ![w] = "idle"]
    /\ wargs' = [wargs EXCEPT ![w] = NoArgs]
    /\ wcur' = [wcur EXCEPT ![w] = 0]
    /\ UNCHANGED <<nextGp, sess>>
    /\ UNCHANGED <<projVars, tableExists, otherVars>>

\* a call on a closed Session returns res and touches nothing
ClosedReturn(w, res) ==
    /\ wres' = [wres EXCEPT ![w] = res]
    /\ UNCHANGED <<events, sess, docs, pend, tableTx, tableExists, won, txEnds>>

\* tx.Rollback: the rows, the table and the Updates of the transaction vanish
TxRollback(w) ==
    /\ sess' = [sess EXCEPT ![w] = "closed"]
    /\ txEnds' = [txEnds EXCEPT ![w] = @ + 1]
    /\ events' = RollbackRows(w)
    /\ pend' = [pend EXCEPT ![w] = <<>>]
    /\ tableTx' = IF tableTx = w THEN "none" ELSE tableTx
    /\ won' = RollbackWon(w)
    /\ UNCHANGED <<docs, tableExists>>

\* Session.Commit: COMMIT of a failed transaction rolls it back and tx.Commit
\* returns an error
Commit(w) ==
    /\ sess[w] \in {"open", "aborted", "closed"}
    /\ wpc[w] = "idle"
    /\ IF IsClosed(w)
       THEN ClosedReturn(w, "SessionClosed")
       ELSE IF sess[w] = "open"
       THEN /\ sess' = [sess EXCEPT ![w] = "closed"]
            /\ txEnds' = [txEnds EXCEPT ![w] = @ + 1]
            /\ events' = CommitRows(w)
            /\ docs' = CommitDocs(w)
            /\ pend' = [pend EXCEPT ![w] = <<>>]
            /\ tableExists' = (tableExists \/ tableTx = w)
            /\ tableTx' = IF tableTx = w THEN "none" ELSE tableTx
            /\ won' = CommitWon(w)
            /\ wres' = [wres EXCEPT ![w] = "ok"]
       ELSE /\ TxRollback(w)
            /\ wres' = [wres EXCEPT ![w] = "CommitFailed"]
    /\ UNCHANGED <<nextGp, wpc, wargs, wcur>>
    /\ UNCHANGED <<projVars, cfgVars, procVars, memo, smemo, cver, many,
                   idxVars>>

\* Session.Rollback
Rollback(w) ==
    /\ sess[w] \in {"open", "aborted", "closed"}
    /\ wpc[w] = "idle"
    /\ IF IsClosed(w)
       THEN ClosedReturn(w, "ok")
       ELSE /\ TxRollback(w)
            /\ wres' = [wres EXCEPT ![w] = "ok"]
    /\ UNCHANGED <<nextGp, wpc, wargs, wcur>>
    /\ UNCHANGED <<projVars, cfgVars, procVars, memo, smemo, cver, many,
                   idxVars>>

\* Session.Close
Close(w) ==
    IF IsClosed(w)
    THEN /\ wpc[w] = "idle"
         /\ ClosedReturn(w, "ok")
         /\ UNCHANGED <<nextGp, wpc, wargs, wcur>>
         /\ UNCHANGED <<projVars, cfgVars, procVars, memo, smemo, cver, many,
                        idxVars>>
    ELSE Rollback(w)

\* ================================================================ documents
\* The collection documents.Collection[T](b, name) over whisker_<name>; b is
\* the Store, or the writer's Session while one is open.

\* the row of id that a statement of the writer's backend sees
VisibleRow(w, id) ==
    IF InTx(w) /\ id \in DOMAIN pend[w] THEN pend[w][id] ELSE docs[id]

\* another open transaction has written the row (or inserted its key)
RowLocked(w, id) ==
    \E x \in Writers \ {w} : InTx(x) /\ id \in DOMAIN pend[x]

\* the table exists for a statement of the writer's backend
TableVisible(w) == tableExists \/ tableTx = w

\* b.SchemaBootstrap(): the Session's private Bootstrap or the Store's
BackendMemo(w) == IF InTx(w) THEN smemo[w] ELSE memo

\* the table is there for the statement that follows EnsureCollection: the
\* memo misses and CREATE TABLE IF NOT EXISTS runs, or the table exists
TableAfterEnsure(w) == TableVisible(w) \/ ~BackendMemo(w)

\* Bootstrap.EnsureCollection for a name the pattern accepts: nothing on a memo
\* hit, else CREATE TABLE IF NOT EXISTS (which waits for an uncommitted CREATE
\* of another transaction) and the memo entry
EnsureCollection(w) ==
    /\ (~BackendMemo(w) /\ ~TableVisible(w)) => tableTx = "none"
    /\ IF InTx(w)
       THEN /\ smemo' = [smemo EXCEPT ![w] = TRUE]
            /\ tableTx' = IF ~smemo[w] /\ ~TableVisible(w) THEN w ELSE tableTx
            /\ UNCHANGED <<memo, tableExists>>
       ELSE /\ memo' = TRUE
            /\ tableExists' = (tableExists \/ ~memo)
            /\ UNCHANGED <<smemo, tableTx>>

\* b.SchemaBootstrap().indexes of the writer's backend
BackendIndexes(w) == IF InTx(w) THEN simemo[w] ELSE imemo

\* what a call has sent when it has sent nothing
NoStatements == [inTransaction |-> FALSE, statements |-> {}]

\* the statements stmts went to the executor of the writer's backend
Sent(w, stmts) == [inTransaction |-> InTx(w), statements |-> stmts]

\* CREATE TABLE IF NOT EXISTS of EnsureCollection reaches a transaction that
\* has failed: the server rejects it
EnsureRejected(w) == sess[w] = "aborted" /\ ~BackendMemo(w)

\* ensureIndexes gets to its Exec: indexes declared, no transaction, no memo
IndexDue(w) == indexes /\ ~InTx(w) /\ CollectionIndex \notin imemo

\* the error of c.ensure
EnsureError(w) ==
    IF ~ValidateCollectionName(name) THEN "InvalidArgument"
    ELSE IF EnsureRejected(w) THEN "TxAborted"
    ELSE IF IndexDue(w) /\ ~TableAfterEnsure(w) THEN "UndefinedTable"
    ELSE "nil"

\* the statements c.ensure sends
EnsureStatements(w) ==
    IF ~ValidateCollectionName(name) THEN {}
    ELSE (IF BackendMemo(w) THEN {} ELSE {"CREATE TABLE"})
         \cup (IF ~EnsureRejected(w) /\ IndexDue(w)
               THEN {CreateIndexConcurrently} ELSE {})

\* c.ensure: EnsureCollection, then ensureIndexes
ensure(w) ==
    /\ IF ValidateCollectionName(name) /\ ~EnsureRejected(w)
       THEN EnsureCollection(w)
       ELSE UNCHANGED <<memo, smemo, tableTx, tableExists>>
    /\ imemo' = IF EnsureError(w) = "nil" /\ IndexDue(w)
                THEN imemo \cup {CollectionIndex} ELSE imemo
    /\ UNCHANGED <<indexes, simemo>>

\* a failed statement aborts the transaction it ran in
Abort(w) == [sess EXCEPT ![w] = IF @ = "open" THEN "aborted" ELSE @]

\* the id/data statement of the writer's backend writes a row
Write(w, id, row) ==
    IF InTx(w)
    THEN /\ pend' = [pend EXCEPT ![w] = (id :> row) @@ @]
         /\ UNCHANGED docs
    ELSE /\ docs' = [docs EXCEPT ![id] = row]
         /\ UNCHANGED pend

\* every type taken for one without a version field
ExtractVersionNone(v) == [version |-> 0, ok |-> FALSE]

\* meta.ExtractVersion / meta.SetVersion on a document whose version field,
\* if the type has one, holds v
ExtractVersion(v) ==
    IF versioned THEN [version |-> v, ok |-> TRUE]
    ELSE [version |-> 0, ok |-> FALSE]

SetVersion(v, n) == IF versioned THEN n ELSE v

\* the call fails before any statement of its own: res is its error
DocFails(w, res) ==
    /\ wres' = [wres EXCEPT ![w] = res]
    /\ UNCHANGED <<docs, pend, won>>

\* CollectionOf.Insert of a document with ID id and payload d. A duplicate key
\* is SQLSTATE 23505, wrapped as it comes.
Insert(w, id, d) ==
    /\ wpc[w] = "idle"
    /\ ensure(w)
    /\ IF EnsureError(w) # "nil"
       THEN /\ DocFails(w, EnsureError(w))
            /\ cver' = [cver EXCEPT ![w] = 0]
            /\ sent' = [sent EXCEPT ![w] = Sent(w, EnsureStatements(w))]
            /\ UNCHANGED sess
       ELSE IF id = EmptyId
       THEN /\ DocFails(w, "InvalidArgument")
            /\ cver' = [cver EXCEPT ![w] = 0]
            /\ sent' = [sent EXCEPT ![w] = Sent(w, EnsureStatements(w))]
            /\ UNCHANGED sess
       ELSE /\ sent' = [sent EXCEPT ![w] =
                          Sent(w, EnsureStatements(w) \cup {"INSERT"})]
            /\ IF sess[w] = "aborted"
               THEN /\ DocFails(w, "TxAborted")
                    /\ cver' = [cver EXCEPT ![w] = 0]
                    /\ UNCHANGED sess
               ELSE IF ~TableAfterEnsure(w)
               THEN /\ DocFails(w, "UndefinedTable")
                    /\ sess' = Abort(w)
                    /\ cver' = [cver EXCEPT ![w] = 0]
               ELSE /\ ~RowLocked(w, id)
                    /\ IF VisibleRow(w, id).present
                       THEN /\ DocFails(w, "UniqueViolation")
                            /\ sess' = Abort(w)
                            /\ cver' = [cver EXCEPT ![w] = 0]
                       ELSE /\ Write(w, id, Row(d, 1))
                            /\ wres' = [wres EXCEPT ![w] = "ok"]
                            /\ cver' = [cver EXCEPT ![w] = SetVersion(0, 1)]
                            /\ UNCHANGED <<sess, won>>
    /\ UNCHANGED <<events, nextGp, wpc, wargs, wcur>>
    /\ UNCHANGED <<projVars, cfgVars, procVars, many, txEnds>>

\* zero rows affected, answered the wrong way round
UpdateErrorSwapped(hasVersion) ==
    IF hasVersion THEN "NotFound" ELSE "ConcurrencyConflict"

\* if tag.RowsAffected() == 0
UpdateError(hasVersion) ==
    IF hasVersion THEN "ConcurrencyConflict" ELSE "NotFound"

\* CollectionOf.Update of a document with ID id, version field v (0 for a
\* type without one) and payload d: UPDATE ... SET version = v+1 WHERE id = id
\* [AND version = v]; the statement waits for a transaction that has written
\* the row and then sees what it committed
Update(w, id, v, d) ==
    /\ wpc[w] = "idle"
    /\ versioned \/ v = 0
    /\ ensure(w)
    /\ IF EnsureError(w) # "nil"
       THEN /\ DocFails(w, EnsureError(w))
            /\ cver' = [cver EXCEPT ![w] = v]
            /\ sent' = [sent EXCEPT ![w] = Sent(w, EnsureStatements(w))]
            /\ UNCHANGED sess
       ELSE /\ sent' = [sent EXCEPT ![w] =
                          Sent(w, EnsureStatements(w) \cup {"UPDATE"})]
            /\ IF sess[w] = "aborted"
               THEN /\ DocFails(w, "TxAborted")
                    /\ cver' = [cver EXCEPT ![w] = v]
                    /\ UNCHANGED sess
               ELSE IF ~TableAfterEnsure(w)
               THEN /\ DocFails(w, "UndefinedTable")
                    /\ sess' = Abort(w)
                    /\ cver' = [cver EXCEPT ![w] = v]
               ELSE LET currentVersion == ExtractVersion(v).version
                        hasVersion == ExtractVersion(v).ok
                        newVersion == currentVersion + 1
                        row == VisibleRow(w, id)
                    IN
                    /\ docs[id].present => ~RowLocked(w, id)
                    /\ IF row.present
                          /\ (hasVersion => row.version = currentVersion)
                       THEN /\ newVersion <= MaxVersion
                            /\ Write(w, id, Row(d, newVersion))
                            /\ wres' = [wres EXCEPT ![w] = "ok"]
                            /\ cver' = [cver EXCEPT ![w] =
                                           SetVersion(v, newVersion)]
                            /\ won' = IF hasVersion
                                      THEN won \cup
                                           {[id |-> id, v |-> v,
                                             tx |-> IF InTx(w) THEN w
                                                    ELSE NoTx]}
                                      ELSE won
                       ELSE /\ DocFails(w, UpdateError(hasVersion))
                            /\ cver' = [cver EXCEPT ![w] = v]
                    /\ UNCHANGED sess
    /\ UNCHANGED <<events, nextGp, wpc, wargs, wcur>>
    /\ UNCHANGED <<projVars, cfgVars, procVars, many, txEnds>>

\* what LoadMany returns: the ids of the documents and the error
NoResult == [docs |-> {}, err |-> "nil", errs |-> {}]

Failed(err) == [docs |-> {}, err |-> err, errs |-> {}]

\* c.maxBatchSize > 0 && n > c.maxBatchSize
checkBatchSize(n) == ~(maxBatchSize > 0 /\ n > maxBatchSize)

\* the rows of SELECT ... WHERE id IN (ids), then len(foundIDs) < len(ids)
LoadManyResult(w, ids) ==
    LET foundIDs == {id \in Range(ids) : VisibleRow(w, id).present}
    IN IF Cardinality(foundIDs) < Len(ids)
       THEN [docs |-> foundIDs, err |-> "BatchError",
             errs |-> {id \in Range(ids) : id \notin foundIDs}]
       ELSE [docs |-> foundIDs, err |-> "nil", errs |-> {}]

\* CollectionOf.LoadMany
LoadMany(w, ids) ==
    /\ wpc[w] = "idle"
    /\ IF Len(ids) = 0
       THEN /\ many' = NoResult
            /\ sent' = [sent EXCEPT ![w] = Sent(w, {})]
            /\ UNCHANGED <<sess, tableTx, memo, smemo, tableExists>>
            /\ UNCHANGED <<indexes, imemo, simemo>>
       ELSE IF ~checkBatchSize(Len(ids))
       THEN /\ many' = Failed("BatchTooLarge")
            /\ sent' = [sent EXCEPT ![w] = Sent(w, {})]
            /\ UNCHANGED <<sess, tableTx, memo, smemo, tableExists>>
            /\ UNCHANGED <<indexes, imemo, simemo>>
       ELSE /\ ensure(w)
            /\ IF EnsureError(w) # "nil"
               THEN /\ many' = Failed(EnsureError(w))
                    /\ sent' = [sent EXCEPT ![w] =
                                  Sent(w, EnsureStatements(w))]
                    /\ UNCHANGED sess
               ELSE /\ sent' = [sent EXCEPT ![w] =
                                  Sent(w, EnsureStatements(w) \cup {"SELECT"})]
                    /\ IF sess[w] = "aborted"
                       THEN /\ many' = Failed("TxAborted")
                            /\ UNCHANGED sess
                       ELSE IF ~TableAfterEnsure(w)
                       THEN /\ many' = Failed("UndefinedTable")
                            /\ sess' = Abort(w)
                       ELSE /\ many' = LoadManyResult(w, ids)
                            /\ UNCHANGED sess
    /\ UNCHANGED <<events, nextGp, wpc, wargs, wres, wcur>>
    /\ UNCHANGED <<projVars, cfgVars, procVars, docs, pend, cver, won, txEnds>>

\* field names and operators given to Query.Where: the empty name, a column,
\* an identifier, a path with ->, a name with a character outside
\* [A-Za-z0-9_]; an operator of allowedOps and one outside it
Fields == {<<>>, <<"i", "d">>, <<"a", "_", "1">>, <<"a", "-", ">", "a">>,
           <<"a", ";">>}
Ops == {"=", ">=", "LIKE"}
knownColumns == {<<"i", "d">>}
allowedOps == {"=", "!=", ">", "<", ">=", "<="}

\* strings.Contains(field, "->")
ContainsArrow(field) ==
    \E i \in 1..(Len(field) - 1) : field[i] = "-" /\ field[i + 1] = ">"

\* resolveField: the expression the field name becomes, or the error
resolveField(field) ==
    IF field = <<>> THEN [err |-> TRUE, expr |-> "none"]
    ELSE IF field \in knownColumns THEN [err |-> FALSE, expr |-> "column"]
    ELSE IF ContainsArrow(field) THEN [err |-> FALSE, expr |-> "path"]
    ELSE IF \E i \in 1..Len(field) : field[i] \notin WordChars
    THEN [err |-> TRUE, expr |-> "none"]
    ELSE [err |-> FALSE, expr |-> "data->>"]

\* applyConditions on one condition (field, op, value)
applyConditions(field, op) ==
    IF op \notin allowedOps THEN "InvalidArgument"
    ELSE IF resolveField(field).err THEN "InvalidArgument"
    ELSE "nil"

\* a query with one Where condition and no OrderBy, After, Limit or Offset:
\* c.ensure, then the SQL is built, then stmt is sent
QueryCall(w, stmt, field, op) ==
    /\ wpc[w] = "idle"
    /\ ensure(w)
    /\ IF EnsureError(w) # "nil"
       THEN /\ wres' = [wres EXCEPT ![w] = EnsureError(w)]
            /\ sent' = [sent EXCEPT ![w] = Sent(w, EnsureStatements(w))]
            /\ UNCHANGED sess
       ELSE IF applyConditions(field, op) # "nil"
       THEN /\ wres' = [wres EXCEPT ![w] = applyConditions(field, op)]
            /\ sent' = [sent EXCEPT ![w] = Sent(w, EnsureStatements(w))]
            /\ UNCHANGED sess
       ELSE /\ sent' = [sent EXCEPT ![w] =
                          Sent(w, EnsureStatements(w) \cup {stmt})]
            /\ IF sess[w] = "aborted"
               THEN /\ wres' = [wres EXCEPT ![w] = "TxAborted"]
                    /\ UNCHANGED sess
               ELSE IF ~TableAfterEnsure(w)
               THEN /\ wres' = [wres EXCEPT ![w] = "UndefinedTable"]
                    /\ sess' = Abort(w)
               ELSE /\ wres' = [wres EXCEPT ![w] = "ok"]
                    /\ UNCHANGED sess
    /\ UNCHANGED <<events, nextGp, wpc, wargs, wcur>>
    /\ UNCHANGED <<projVars, cfgVars, procVars, docs, pend, cver, many, won,
                   txEnds>>

\* Query.Execute, Query.Count, Query.Exists
Execute(w, field, op) == QueryCall(w, "SELECT", field, op)

Count(w, field, op) == QueryCall(w, "SELECT COUNT", field, op)

Exists(w, field, op) == QueryCall(w, "SELECT EXISTS", field, op)

\* events.Store.ReadAll through the writer's backend, its transaction not
\* failed: EnsureEventsGlobalPositionIndex sends CREATE INDEX CONCURRENTLY on
\* a memo miss, which a transaction block rejects (SQLSTATE 25001), then the
\* SELECT
ReadAllCall(w) ==
    /\ wpc[w] = "idle"
    /\ sess[w] # "aborted"
    /\ IF EventsIndex \in BackendIndexes(w)
       THEN /\ wres' = [wres EXCEPT ![w] = "ok"]
            /\ sent' = [sent EXCEPT ![w] = Sent(w, {"SELECT"})]
            /\ UNCHANGED <<sess, imemo>>
       ELSE IF InTx(w)
       THEN /\ wres' = [wres EXCEPT ![w] = "ActiveSQLTransaction"]
            /\ sent' = [sent EXCEPT ![w] =
                          Sent(w, {CreateIndexConcurrently})]
            /\ sess' = Abort(w)
            /\ UNCHANGED imemo
       ELSE /\ wres' = [wres EXCEPT ![w] = "ok"]
            /\ sent' = [sent EXCEPT ![w] =
                          Sent(w, {CreateIndexConcurrently, "SELECT"})]
            /\ imemo' = imemo \cup {EventsIndex}
            /\ UNCHANGED sess
    /\ UNCHANGED <<events, nextGp, wpc, wargs, wcur>>
    /\ UNCHANGED <<projVars, tableExists, cfgVars, procVars, docVars,
                   indexes, simemo>>

\* id lists of LoadMany: the sequences of length 0..MaxIds over the ids
IdLists == UNION {[1..n -> Ids] : n \in 0..MaxIds}

\* ======================================================= projection runtime
\* One subscriber; d1 and d2 are the Workers two Daemons run for it over the
\* same Store (one connection pool), rb is the Worker Rebuild creates.

Min(a, b) == IF a < b THEN a ELSE b

\* the Event ReadAll scans from a row
Event(r) == [stream |-> r.stream, version |-> r.version, type |-> r.type,
             gp |-> r.gp]

RECURSIVE OrderByGp(_)
OrderByGp(S) ==
    IF S = {} THEN <<>>
    ELSE LET r == CHOOSE x \in S : \A y \in S : x.gp <= y.gp
         IN <<Event(r)>> \o OrderByGp(S \ {r})

\* ReadAll with the cursor compared one position too far
ReadAllSkipsOne(afterPosition, limit) ==
    LET all == OrderByGp({r \in Committed : r.gp > afterPosition + 1})
    IN SubSeq(all, 1, Min(limit, Len(all)))

\* WHERE global_position > afterPosition ORDER BY global_position LIMIT limit
ReadAll(afterPosition, limit) ==
    LET all == OrderByGp({r \in Committed : r.gp > afterPosition})
    IN SubSeq(all, 1, Min(limit, Len(all)))

\* a poll that starts at the checkpoint's event instead of after it
PollFromCheckpoint(afterPosition) == ReadAll(afterPosition - 1, batchSize)

Poll(afterPosition) == ReadAll(afterPosition, batchSize)

filterEvents(es) == SelectSeq(es, LAMBDA e : e.type \in EventTypes)

\* Load without the status column
LoadIgnoresStatus ==
    [pos |-> IF checkpoint.exists THEN checkpoint.pos ELSE 0,
     status |-> "running"]

\* CheckpointStore on the subscriber's row
Load == IF checkpoint.exists
        THEN [pos |-> checkpoint.pos, status |-> checkpoint.status]
        ELSE [pos |-> 0, status |-> "running"]

\* an upsert that also writes the status column
SaveSetsRunning(position) ==
    [exists |-> TRUE, pos |-> position, status |-> "running"]

Save(position) ==
    [exists |-> TRUE, pos |-> position,
     status |-> IF checkpoint.exists THEN checkpoint.status ELSE "running"]

SetStatus(status) ==
    [exists |-> TRUE, pos |-> IF checkpoint.exists THEN checkpoint.pos ELSE 0,
     status |-> status]

Reset == [exists |-> TRUE, pos |-> 0, status |-> "rebuilding"]

\* largest position of a committed event of one of the subscriber's types
MaxMatching ==
    LET ps == {r.gp : r \in {x \in Committed : x.type \in EventTypes}}
    IN IF ps = {} THEN 0 ELSE Max(ps)

\* pg_try_advisory_lock on connection c: granted unless another session holds it
CanLock(c) == \A c2 \in Conns \ {c} : lockCount[c2] = 0

\* a ProcessBatch call is between its Load and its return
InProcessBatch(w) == pc[w] \in {"poll", "process", "save"}

\* ProcessBatch returns 0 or an error: the drain loop ends.
\* how: "empty" / "skipped" (n = 0), "error", "cancelled"
EndLoop(w, how) ==
    /\ pc' = [pc EXCEPT ![w] =
                IF w \in DaemonWorkers THEN "release"
                ELSE IF how \in {"empty", "skipped"} THEN "setstatus"
                ELSE "idle"]
    /\ rebuilds' = IF w = RebuildWorker /\ how \notin {"empty", "skipped"}
                   THEN rebuilds + 1 ELSE rebuilds
    /\ drainEnd' = [drainEnd EXCEPT ![w] = how]
    /\ evts' = [evts EXCEPT ![w] = <<>>]
    /\ ret' = [ret EXCEPT ![w] = 0]

\* Daemon.Run starts the worker again after its context was cancelled
Run(w) ==
    /\ w \in DaemonWorkers
    /\ pc[w] = "stopped"
    /\ pc' = [pc EXCEPT ![w] = "idle"]
    /\ cancelled' = [cancelled EXCEPT ![w] = FALSE]
    /\ consecutiveFailures' = [consecutiveFailures EXCEPT ![w] = 0]
    /\ UNCHANGED <<checkpoint, lockCount, connOwner, lockConn, granted, pos,
                   evts, delivered, drainEnd, pollMax, tableExists, rebuilds,
                   ret, table>>
    /\ UNCHANGED <<evVars, otherVars>>

\* the context of a worker's Daemon (or of the Rebuild call) is cancelled
Cancel(w) ==
    /\ w \in Cancellable
    /\ ~cancelled[w]
    /\ pc[w] # "stopped"
    /\ cancelled' = [cancelled EXCEPT ![w] = TRUE]
    /\ UNCHANGED <<checkpoint, lockCount, connOwner, lockConn, granted, pc,
                   pos, evts, consecutiveFailures, delivered, drainEnd,
                   pollMax, tableExists, rebuilds, ret, table>>
    /\ UNCHANGED <<evVars, otherVars>>

\* runWorker's select never sees the cancellation
ctxDoneNever(w) == FALSE

\* runWorker's select: case <-ctx.Done()
ctxDone(w) == cancelled[w]

\* runWorker's tick: drainBatches up to the result of TryAcquireLock.
\* c is the connection pool.Acquire hands out, qerr a failure of the lock query
\* (the broken connection is destroyed by Release, which ends its session).
TryAcquireLock(w, c, qerr) ==
    /\ w \in DaemonWorkers
    /\ pc[w] = "idle"
    /\ IF ctxDone(w)
       THEN /\ pc' = [pc EXCEPT ![w] = "stopped"]
            /\ UNCHANGED <<lockCount, connOwner, lockConn, granted>>
       ELSE /\ connOwner[c] = NoConn
            /\ lockCount[c] < MaxLocks
            /\ IF qerr
               THEN /\ lockCount' = [lockCount EXCEPT ![c] = 0]
                    /\ granted' = [x \in Workers |->
                                     IF granted[x] = c THEN NoConn
                                     ELSE granted[x]]
                    /\ UNCHANGED <<connOwner, lockConn, pc>>
               ELSE IF CanLock(c)
               THEN /\ lockCount' = [lockCount EXCEPT ![c] = @ + 1]
                    /\ connOwner' = [connOwner EXCEPT ![c] = w]
                    /\ lockConn' = [lockConn EXCEPT ![w] = c]
                    /\ granted' = [granted EXCEPT ![w] = c]
                    /\ pc' = [pc EXCEPT ![w] = "load"]
               ELSE UNCHANGED <<lockCount, connOwner, lockConn, granted, pc>>
    /\ UNCHANGED <<checkpoint, pos, evts, consecutiveFailures, cancelled,
                   delivered, drainEnd, pollMax, tableExists, rebuilds,
                   ret, table>>
    /\ UNCHANGED <<evVars, otherVars>>

\* the deferred ReleaseLock of drainBatches. With the context cancelled the
\* unlock query fails before it is sent; qerr is a failure that breaks the
\* connection. Either way the deferred function releases the connection.
ReleaseLock(w, qerr) ==
    LET c == lockConn[w] IN
    /\ w \in DaemonWorkers
    /\ pc[w] = "release"
    /\ c # NoConn
    /\ IF qerr
       THEN /\ lockCount' = [lockCount EXCEPT ![c] = 0]
            /\ granted' = [x \in Workers |->
                             IF granted[x] = c THEN NoConn ELSE granted[x]]
       ELSE IF cancelled[w]
       THEN UNCHANGED <<lockCount, granted>>
       ELSE /\ lockCount' = [lockCount EXCEPT ![c] =
                               IF @ > 0 THEN @ - 1 ELSE 0]
            /\ granted' = [granted EXCEPT ![w] = NoConn]
    /\ connOwner' = [connOwner EXCEPT ![c] = NoConn]
    /\ lockConn' = [lockConn EXCEPT ![w] = NoConn]
    /\ pc' = [pc EXCEPT ![w] = "idle"]
    /\ pos' = [pos EXCEPT ![w] = 0]
    /\ pollMax' = [pollMax EXCEPT ![w] = 0]
    /\ drainEnd' = [drainEnd EXCEPT ![w] = "none"]
    /\ UNCHANGED <<checkpoint, evts, consecutiveFailures, cancelled,
                   delivered, tableExists, rebuilds, ret, table>>
    /\ UNCHANGED <<evVars, otherVars>>

\* the loop's ctx.Err() test, then ProcessBatch up to the status test
ProcessBatchLoad(w) ==
    /\ pc[w] = "load"
    /\ IF cancelled[w]
       THEN /\ EndLoop(w, "cancelled")
            /\ UNCHANGED pos
       ELSE IF Load.status \in {"dead_letter", "stopped"}
       THEN /\ EndLoop(w, "skipped")
            /\ pos' = [pos EXCEPT ![w] = Load.pos]
       ELSE /\ pos' = [pos EXCEPT ![w] = Load.pos]
            /\ pc' = [pc EXCEPT ![w] = "poll"]
            /\ ret' = [ret EXCEPT ![w] = 0]
            /\ UNCHANGED <<evts, drainEnd, rebuilds>>
    /\ pollMax' = [pollMax EXCEPT ![w] =
                      IF cancelled[w] THEN @ ELSE MaxMatching]
    /\ UNCHANGED <<checkpoint, lockCount, connOwner, lockConn, granted,
                   consecutiveFailures, cancelled, delivered, tableExists,
                   table>>
    /\ UNCHANGED <<evVars, otherVars>>

\* ProcessBatch: the poll and the filter
ProcessBatchPoll(w) ==
    /\ pc[w] = "poll"
    /\ IF cancelled[w]
       THEN /\ EndLoop(w, "error")
            /\ UNCHANGED <<pollMax, imemo>>
       ELSE /\ pollMax' = [pollMax EXCEPT ![w] = MaxMatching]
            /\ imemo' = imemo \cup {EventsIndex}
            /\ IF Len(Poll(pos[w])) = 0
               THEN EndLoop(w, "empty")
               ELSE /\ evts' = [evts EXCEPT ![w] = Poll(pos[w])]
                    /\ pc' = [pc EXCEPT ![w] =
                                IF Len(filterEvents(Poll(pos[w]))) = 0
                                THEN "save" ELSE "process"]
                    /\ UNCHANGED <<drainEnd, rebuilds, ret>>
    /\ UNCHANGED <<checkpoint, lockCount, connOwner, lockConn, granted, pos,
                   consecutiveFailures, cancelled, delivered, tableExists,
                   table>>
    /\ UNCHANGED <<evVars, cfgVars, procVars, docVars, indexes, simemo, sent>>

\* the threshold test with > for >=
ShouldDeadLetterLate(failures) == failures > maxRetries

\* if w.consecutiveFailures >= w.maxRetries
ShouldDeadLetter(failures) == failures >= maxRetries

\* the processing store can use the read-model table: EnsureCollection accepts
\* the name and the table exists, or the memo lacks it and the table is created
StoreUsable == ValidateCollectionName(name) /\ (tableExists \/ ~memo)

\* the events whose UpsertState / DeleteState the loop of Process has executed
\* when it has gone through the first k events; each is a statement of its
\* own through the pool
Applied(es, k) == {es[i].gp : i \in 1..k}

\* ProcessBatch: subscriber.Process on the filtered batch; ok is its outcome.
\* The subscriber is a Projection: every event of the batch goes through the
\* processing store, so Process fails when the store cannot use the table;
\* a Process that fails at an event leaves the effects of the events before it.
ProcessBatchProcess(w, ok) ==
    /\ pc[w] = "process"
    /\ (ValidateCollectionName(name) /\ ~memo /\ ~tableExists)
          => tableTx = "none"
    /\ memo' = (memo \/ ValidateCollectionName(name))
    /\ tableExists' = (tableExists \/ (ValidateCollectionName(name) /\ ~memo))
    /\ IF ok
       THEN /\ StoreUsable
            /\ delivered' = delivered \cup
                              {e.gp : e \in Range(filterEvents(evts[w]))}
            /\ table' = table \cup
                              {e.gp : e \in Range(filterEvents(evts[w]))}
            /\ consecutiveFailures' = [consecutiveFailures EXCEPT ![w] = 0]
            /\ pc' = [pc EXCEPT ![w] = "save"]
            /\ UNCHANGED <<checkpoint, evts, drainEnd, rebuilds, ret>>
       ELSE /\ w \in Flaky \/ ~StoreUsable
            /\ consecutiveFailures[w] <
                   (IF w \in Flaky THEN MaxFailures ELSE MaxStoreFailures)
            /\ consecutiveFailures' =
                   [consecutiveFailures EXCEPT ![w] = @ + 1]
            /\ checkpoint' =
                   IF ShouldDeadLetter(consecutiveFailures[w] + 1)
                      /\ ~cancelled[w]
                   THEN SetStatus("dead_letter") ELSE checkpoint
            /\ EndLoop(w, "error")
            /\ \E k \in 0..(IF StoreUsable
                             THEN Len(filterEvents(evts[w])) - 1 ELSE 0) :
                  table' = table \cup Applied(filterEvents(evts[w]), k)
            /\ UNCHANGED delivered
    /\ UNCHANGED <<lockCount, connOwner, lockConn, granted, pos, cancelled,
                   pollMax>>
    /\ UNCHANGED <<evVars, cfgVars, procVars, idxVars>>
    /\ UNCHANGED <<docs, pend, tableTx, smemo, cver, many, won, txEnds>>

\* the position of the last matching event instead of the last polled one
SavedPositionLastMatching(es) ==
    IF Len(filterEvents(es)) = 0 THEN es[1].gp
    ELSE filterEvents(es)[Len(filterEvents(es))].gp

\* evts[len(evts)-1].GlobalPosition
SavedPosition(es) == es[Len(es)].gp

\* ProcessBatch: the checkpoint Save and the return of len(evts)
ProcessBatchSave(w) ==
    /\ pc[w] = "save"
    /\ IF cancelled[w]
       THEN /\ EndLoop(w, "error")
            /\ UNCHANGED checkpoint
       ELSE /\ checkpoint' = Save(SavedPosition(evts[w]))
            /\ pc' = [pc EXCEPT ![w] = "load"]
            /\ ret' = [ret EXCEPT ![w] = Len(evts[w])]
            /\ evts' = [evts EXCEPT ![w] = <<>>]
            /\ UNCHANGED <<drainEnd, rebuilds>>
    /\ UNCHANGED <<lockCount, connOwner, lockConn, granted, pos,
                   consecutiveFailures, cancelled, delivered, pollMax,
                   tableExists, table>>
    /\ UNCHANGED <<evVars, otherVars>>

\* Rebuild: subscriber lookup and DROP TABLE
\* DROP TABLE waits for the transactions that have used the table; the
\* Store's memo is left as it is
RebuildDrop ==
    /\ pc[RebuildWorker] = "idle"
    /\ rebuilds < MaxRebuilds
    /\ tableExists => \A w \in Writers : InTx(w) => ~smemo[w]
    /\ tableExists' = FALSE
    /\ table' = {}
    /\ docs' = [i \in Ids |-> NoRow]
    /\ won' = {}
    /\ pc' = [pc EXCEPT ![RebuildWorker] = "reset"]
    /\ UNCHANGED <<checkpoint, lockCount, connOwner, lockConn, granted, pos,
                   evts, consecutiveFailures, cancelled, delivered, drainEnd,
                   pollMax, rebuilds, ret>>
    /\ UNCHANGED <<evVars, cfgVars, procVars, idxVars>>
    /\ UNCHANGED <<pend, tableTx, memo, smemo, cver, many, txEnds>>

\* Rebuild: CheckpointStore.Reset
RebuildReset ==
    /\ pc[RebuildWorker] = "reset"
    /\ ~cancelled[RebuildWorker]
    /\ checkpoint' = Reset
    /\ pc' = [pc EXCEPT ![RebuildWorker] = "create"]
    /\ UNCHANGED <<lockCount, connOwner, lockConn, granted, pos, evts,
                   consecutiveFailures, cancelled, delivered, drainEnd,
                   pollMax, tableExists, rebuilds, ret, table>>
    /\ UNCHANGED <<evVars, otherVars>>

\* Rebuild: CREATE TABLE and NewWorker
RebuildCreate ==
    /\ pc[RebuildWorker] = "create"
    /\ ~cancelled[RebuildWorker]
    /\ tableExists \/ tableTx = "none"
    /\ tableExists' = TRUE
    /\ consecutiveFailures' = [consecutiveFailures EXCEPT ![RebuildWorker] = 0]
    /\ pc' = [pc EXCEPT ![RebuildWorker] = "load"]
    /\ UNCHANGED <<checkpoint, lockCount, connOwner, lockConn, granted, pos,
                   evts, cancelled, delivered, drainEnd, pollMax, rebuilds,
                   ret, table>>
    /\ UNCHANGED <<evVars, otherVars>>

\* Rebuild: SetStatus(name, "running") and return
RebuildSetStatus ==
    /\ pc[RebuildWorker] = "setstatus"
    /\ ~cancelled[RebuildWorker]
    /\ checkpoint' = SetStatus("running")
    /\ pc' = [pc EXCEPT ![RebuildWorker] = "idle"]
    /\ rebuilds' = rebuilds + 1
    /\ UNCHANGED <<lockCount, connOwner, lockConn, granted, pos, evts,
                   consecutiveFailures, cancelled, delivered, drainEnd,
                   pollMax, tableExists, ret, table>>
    /\ UNCHANGED <<evVars, otherVars>>

\* evts slices of Append: the sequences of length 0..MaxBatch over the types
Batches(tys) == UNION {[1..n -> tys] : n \in 0..MaxBatch}

\* a Store whose subscriber has processed before: the read-model table exists
\* and the Store's memo holds it (when its name is one EnsureCollection takes)
InitTable ==
    /\ tableExists = TRUE
    /\ memo = ValidateCollectionName(name)
    /\ versioned = TRUE
    /\ indexes = FALSE
    /\ imemo = {EventsIndex}

\* ------------------------------------------------------ Projection.Process
\* the state of a read model is the versions of the events folded into it
NilState == [present |-> FALSE, data |-> <<>>]
NoState == [present |-> FALSE, data |-> <<>>, version |-> 0]
NoCall == [pc |-> "idle", evts |-> <<>>, i |-> 0, state |-> NilState,
           version |-> 0, result |-> NilState, err |-> "nil", ret |-> "none",
           calls |-> 0]

\* the slices of events passed to Process
ProcessBatches ==
    UNION {[1..n -> [stream : Streams, version : 1..2, type : Types]] :
             n \in 0..MaxBatch}

\* the loop skips the events whose type has no handler (`continue`)
Handled(es, i) ==
    LET js == {j \in i..Len(es) : es[j].type \in EventTypes}
    IN IF js = {} THEN Len(es) + 1
       ELSE CHOOSE j \in js : \A k \in js : j <= k

\* the loop moves on to index i: the next LoadState, or `return nil`
ProcessAt(p, i) ==
    IF Handled(p.evts, i) > Len(p.evts)
    THEN [p EXCEPT !.pc = "done", !.i = Len(p.evts) + 1, !.ret = "nil"]
    ELSE [p EXCEPT !.pc = "load", !.i = Handled(p.evts, i)]

\* pgProcessingStore.LoadState: (nil, 0, nil) without a row, the row's data
\* and version with one, (nil, 0, err) when ensure or the query fails
LoadState(id, fails) ==
    IF fails
    THEN [data |-> NilState, version |-> 0, err |-> "load state"]
    ELSE [data |-> [present |-> states[id].present, data |-> states[id].data],
          version |-> states[id].version, err |-> "nil"]

\* the handler of the projection: the fold of the event into the state
ApplyFunc(evt, state) ==
    [present |-> TRUE, data |-> Append(state.data, evt.version)]

\* Process is called with a slice of events
ProcessCall(es) ==
    /\ proc.pc \in {"idle", "done"}
    /\ proc.calls < MaxCalls
    /\ proc' = ProcessAt([NoCall EXCEPT !.evts = es,
                                        !.calls = proc.calls + 1], 1)
    /\ UNCHANGED states
    /\ UNCHANGED <<evVars, projVars, tableExists, cfgVars, docVars, idxVars>>

\* data, version, err := ps.LoadState(...); the state stays nil unless
\* err == nil && data != nil
ProcessLoadState(fails) ==
    LET l == LoadState(proc.evts[proc.i].stream, fails)
    IN
    /\ proc.pc = "load"
    /\ proc' = [proc EXCEPT !.pc = "apply",
                            !.state = IF l.err = "nil" /\ l.data.present
                                      THEN l.data ELSE NilState,
                            !.version = l.version,
                            !.err = l.err]
    /\ UNCHANGED states
    /\ UNCHANGED <<evVars, projVars, tableExists, cfgVars, docVars, idxVars>>

\* result, err := fn(ctx, evt, state): an error is returned, a nil result
\* goes to DeleteState, any other to UpsertState
ProcessApply(out) ==
    /\ proc.pc = "apply"
    /\ proc' = IF out = "error"
               THEN [proc EXCEPT !.pc = "done", !.ret = "handle"]
               ELSE IF out = "nil"
               THEN [proc EXCEPT !.pc = "delete", !.result = NilState]
               ELSE [proc EXCEPT !.pc = "upsert",
                       !.result = ApplyFunc(proc.evts[proc.i], proc.state)]
    /\ UNCHANGED states
    /\ UNCHANGED <<evVars, projVars, tableExists, cfgVars, docVars, idxVars>>

\* ps.DeleteState / ps.UpsertState(..., out, version): the row goes, or is
\* written with version + 1 whatever it held (ON CONFLICT DO UPDATE); an
\* error of either ends Process
ProcessStore(fails) ==
    LET id == proc.evts[proc.i].stream
    IN
    /\ proc.pc \in {"delete", "upsert"}
    /\ IF fails
       THEN /\ proc' = [proc EXCEPT !.pc = "done",
                          !.err = IF proc.pc = "delete" THEN "delete state"
                                  ELSE "upsert state",
                          !.ret = IF proc.pc = "delete" THEN "delete state"
                                  ELSE "upsert state"]
            /\ UNCHANGED states
       ELSE /\ proc' = ProcessAt([proc EXCEPT !.err = "nil"], proc.i + 1)
            /\ states' = [states EXCEPT ![id] =
                   IF proc.pc = "delete" THEN NoState
                   ELSE [present |-> TRUE, data |-> proc.result.data,
                         version |-> proc.version + 1]]
    /\ UNCHANGED <<evVars, projVars, tableExists, cfgVars, docVars, idxVars>>

InitRest ==
    /\ sess = [w \in Writers |-> "none"]
    /\ wpc = [w \in Writers |-> "idle"]
    /\ wargs = [w \in Writers |-> NoArgs]
    /\ wres = [w \in Writers |-> "none"]
    /\ wcur = [w \in Writers |-> 0]
    /\ lockCount = [c \in Conns |-> 0]
    /\ connOwner = [c \in Conns |-> NoConn]
    /\ lockConn = [w \in Workers |-> NoConn]
    /\ granted = [w \in Workers |-> NoConn]
    /\ pc = [w \in Workers |-> "idle"]
    /\ pos = [w \in Workers |-> 0]
    /\ evts = [w \in Workers |-> <<>>]
    /\ consecutiveFailures = [w \in Workers |-> 0]
    /\ cancelled = [w \in Workers |-> FALSE]
    /\ delivered = {}
    /\ drainEnd = [w \in Workers |-> "none"]
    /\ pollMax = [w \in Workers |-> 0]
    /\ rebuilds = 0
    /\ ret = [w \in Workers |-> 0]
    /\ table = {}
    /\ docs = [i \in Ids |-> NoRow]
    /\ pend = [w \in Writers |-> <<>>]
    /\ tableTx = "none"
    /\ smemo = [w \in Writers |-> FALSE]
    /\ cver = [w \in Writers |-> 0]
    /\ many = NoResult
    /\ won = {}
    /\ txEnds = [w \in Writers |-> 0]
    /\ simemo = [w \in Writers |-> {}]
    /\ sent = [w \in Writers |-> NoStatements]
    /\ proc = NoCall
    /\ states = [id \in Streams |-> NoState]

\* an empty event log
InitBase ==
    /\ events = {}
    /\ nextGp = 1
    /\ InitRest

\* no checkpoint row yet; the subscriber has a well-formed name
Init ==
    /\ InitBase
    /\ checkpoint = [exists |-> FALSE, pos |-> 0, status |-> "running"]
    /\ name = DefaultName
    /\ config = DefaultConfig
    /\ InitTable

NextEvents ==
    \/ \E w \in SessionWriters : SessionBegin(w)
    \/ \E w \in Writers, s \in Streams, ev \in (0 - MaxNegative)..MaxExpected,
          tys \in Batches({"A"}) : AppendCheck(w, s, ev, tys)
    \/ \E w \in Writers : AppendInsert(w)
    \/ \E w \in Writers : AppendCommit(w)
    \/ \E w \in Writers : Commit(w)
    \/ \E w \in Writers : Rollback(w)

SpecEvents == Init /\ [][NextEvents]_vars

\* the stream each writer appends to while the projection runtime is observed
StreamOf(w) == IF w = "w1" THEN "s1" ELSE "s2"

\* the writers of the projection runtime: single events through the pool,
\* each at the current version of the writer's own stream
AppendOne(w, ty) ==
    /\ nextGp + Cardinality({x \in Writers : wpc[x] = "insert"}) <= MaxLog
    /\ AppendCheck(w, StreamOf(w), CurrentVersion(w, StreamOf(w)), <<ty>>)

\* w1 appends events of the subscriber's type, w2 events of another type
TypeOf(w) == IF w = "w1" THEN "A" ELSE "B"

Next ==
    \/ \E w \in Writers : AppendOne(w, TypeOf(w))
    \/ \E w \in Writers : AppendInsert(w)
    \/ \E w \in Writers : AppendCommit(w)
    \/ \E w \in DaemonWorkers, c \in Conns, qerr \in BOOLEAN :
          TryAcquireLock(w, c, qerr)
    \/ \E w \in DaemonWorkers, qerr \in BOOLEAN : ReleaseLock(w, qerr)
    \/ \E w \in Workers : ProcessBatchLoad(w)
    \/ \E w \in Workers : ProcessBatchPoll(w)
    \/ \E w \in Workers, ok \in BOOLEAN : ProcessBatchProcess(w, ok)
    \/ \E w \in Workers : ProcessBatchSave(w)
    \/ \E w \in Cancellable : Cancel(w)
    \/ \E w \in DaemonWorkers : Run(w)
    \/ RebuildDrop
    \/ RebuildReset
    \/ RebuildCreate
    \/ RebuildSetStatus

Spec == Init /\ [][Next]_vars

\* the values of the status column
Statuses == {"running", "rebuilding", "dead_letter", "stopped"}

\* a checkpoint row left by an earlier run or set by an operator
InitStatus ==
    /\ InitBase
    /\ checkpoint \in {[exists |-> TRUE, pos |-> 0, status |-> st] :
                           st \in Statuses}
    /\ name = DefaultName
    /\ config = DefaultConfig
    /\ InitTable

\* the Daemons and the writers, Rebuild never called
NextDaemon ==
    \/ \E w \in Writers : AppendOne(w, TypeOf(w))
    \/ \E w \in Writers : AppendInsert(w)
    \/ \E w \in Writers : AppendCommit(w)
    \/ \E w \in DaemonWorkers, c \in Conns, qerr \in BOOLEAN :
          TryAcquireLock(w, c, qerr)
    \/ \E w \in DaemonWorkers, qerr \in BOOLEAN : ReleaseLock(w, qerr)
    \/ \E w \in DaemonWorkers : ProcessBatchLoad(w)
    \/ \E w \in DaemonWorkers : ProcessBatchPoll(w)
    \/ \E w \in DaemonWorkers, ok \in BOOLEAN : ProcessBatchProcess(w, ok)
    \/ \E w \in DaemonWorkers : ProcessBatchSave(w)
    \/ \E w \in Cancellable : Cancel(w)
    \/ \E w \in DaemonWorkers : Run(w)

SpecStatus == InitStatus /\ [][NextDaemon]_vars

\* a subscriber built with any name: projections.New and Daemon.Add take the
\* name as it comes
InitNames ==
    /\ InitBase
    /\ checkpoint = [exists |-> FALSE, pos |-> 0, status |-> "running"]
    /\ name \in Names
    /\ config = DefaultConfig
    /\ InitTable

\* the writers and the calls of Daemon.Rebuild
NextRebuild ==
    \/ \E w \in Writers : AppendOne(w, TypeOf(w))
    \/ \E w \in Writers : AppendInsert(w)
    \/ \E w \in Writers : AppendCommit(w)
    \/ ProcessBatchLoad(RebuildWorker)
    \/ ProcessBatchPoll(RebuildWorker)
    \/ \E ok \in BOOLEAN : ProcessBatchProcess(RebuildWorker, ok)
    \/ ProcessBatchSave(RebuildWorker)
    \/ RebuildDrop
    \/ RebuildReset
    \/ RebuildCreate
    \/ RebuildSetStatus

SpecNames == InitNames /\ [][NextRebuild]_vars

\* Daemons built with NewDaemon(store, WithBatchSize(n))
InitConfig ==
    /\ InitBase
    /\ checkpoint = [exists |-> FALSE, pos |-> 0, status |-> "running"]
    /\ name = DefaultName
    /\ config \in {WithBatchSize(DefaultConfig, n) : n \in 1..MaxConfigured}
    /\ InitTable

SpecConfig == InitConfig /\ [][NextDaemon]_vars

\* a fresh database and a new Store; the collection's type has a version
\* field or not
InitDocs ==
    /\ InitBase
    /\ checkpoint = [exists |-> FALSE, pos |-> 0, status |-> "running"]
    /\ name = DefaultName
    /\ config = DefaultConfig
    /\ tableExists = FALSE
    /\ memo = FALSE
    /\ versioned \in BOOLEAN
    /\ indexes = FALSE
    /\ imemo = {}

\* two clients of one document of the collection, the second also through
\* Sessions
NextDocs ==
    \/ \E w \in SessionWriters : SessionBegin(w)
    \/ \E w \in SessionWriters : Commit(w)
    \/ \E w \in SessionWriters : Rollback(w)
    \/ \E w \in Writers, id \in {"x", EmptyId}, d \in Data : Insert(w, id, d)
    \/ \E w \in Writers, v \in 0..MaxVersion, d \in Data :
          Update(w, "x", v, d)

SpecDocs == InitDocs /\ [][NextDocs]_vars

\* two clients that insert documents and load lists of ids, the second also
\* through Sessions
NextLoadMany ==
    \/ \E w \in SessionWriters : SessionBegin(w)
    \/ \E w \in SessionWriters : Commit(w)
    \/ \E w \in SessionWriters : Rollback(w)
    \/ \E w \in Writers, id \in Ids : Insert(w, id, "p")
    \/ \E w \in Writers, ids \in IdLists : LoadMany(w, ids)

SpecLoadMany == InitDocs /\ [][NextLoadMany]_vars

\* the first client writes document "x" through the Store; the second opens
\* Sessions and writes documents and events through them only
NextSession ==
    \/ \E w \in SessionWriters : SessionBegin(w)
    \/ \E w \in SessionWriters : Commit(w)
    \/ \E w \in SessionWriters : Rollback(w)
    \/ \E w \in SessionWriters : Close(w)
    \/ \E w \in Writers \ SessionWriters, d \in Data : Insert(w, "x", d)
    \/ \E w \in SessionWriters, id \in Ids : InTx(w) /\ Insert(w, id, "p")
    \/ \E w \in Writers, v \in 0..MaxVersion :
          (w \in SessionWriters => InTx(w)) /\ Update(w, "x", v, "q")
    \/ \E w \in SessionWriters : InTx(w) /\ AppendOne(w, TypeOf(w))
    \/ \E w \in SessionWriters : AppendInsert(w)

SpecSession == InitDocs /\ [][NextSession]_vars

\* the read-model collection of the subscriber used as a collection: the
\* first client inserts through the Store, the second through Sessions, while
\* events are appended and Daemon.Rebuild is called
NextSchema ==
    \/ NextRebuild
    \/ \E w \in SessionWriters : SessionBegin(w)
    \/ \E w \in SessionWriters : Commit(w)
    \/ \E w \in SessionWriters : Rollback(w)
    \/ \E w \in Writers \ SessionWriters : Insert(w, "x", "p")
    \/ \E w \in SessionWriters : InTx(w) /\ Insert(w, "y", "p")

SpecSchema == InitDocs /\ [][NextSchema]_vars

\* a fresh database and a new Store; the collection's type declares an index
InitIndexes ==
    /\ InitBase
    /\ checkpoint = [exists |-> FALSE, pos |-> 0, status |-> "running"]
    /\ name = DefaultName
    /\ config = DefaultConfig
    /\ tableExists = FALSE
    /\ memo = FALSE
    /\ versioned = TRUE
    /\ indexes = TRUE
    /\ imemo = {}

\* two clients that use the collection and read the event log, the second
\* also through Sessions
NextIndexes ==
    \/ \E w \in SessionWriters : SessionBegin(w)
    \/ \E w \in SessionWriters : Commit(w)
    \/ \E w \in SessionWriters : Rollback(w)
    \/ \E w \in Writers : Insert(w, "x", "p")
    \/ \E w \in Writers : Update(w, "x", 1, "q")
    \/ \E w \in Writers : LoadMany(w, <<"x">>)
    \/ \E w \in Writers : ReadAllCall(w)

SpecIndexes == InitIndexes /\ [][NextIndexes]_vars

\* a fresh database and a new Store; a collection of any name, with declared
\* indexes or without
InitQuery ==
    /\ InitBase
    /\ checkpoint = [exists |-> FALSE, pos |-> 0, status |-> "running"]
    /\ name \in Names
    /\ config = DefaultConfig
    /\ tableExists = FALSE
    /\ memo = FALSE
    /\ versioned = TRUE
    /\ indexes \in BOOLEAN
    /\ imemo = {}

\* two clients that insert into the collection and query it, the second also
\* through Sessions
NextQuery ==
    \/ \E w \in SessionWriters : SessionBegin(w)
    \/ \E w \in SessionWriters : Commit(w)
    \/ \E w \in SessionWriters : Rollback(w)
    \/ \E w \in Writers : Insert(w, "x", "p")
    \/ \E w \in Writers, field \in Fields, op \in Ops : Execute(w, field, op)
    \/ \E w \in Writers, field \in Fields, op \in Ops : Count(w, field, op)
    \/ \E w \in Writers, field \in Fields, op \in Ops : Exists(w, field, op)

SpecQuery == InitQuery /\ [][NextQuery]_vars

\* two writers of one stream, the second also through Sessions
NextAppend ==
    \/ \E w \in SessionWriters : SessionBegin(w)
    \/ \E w \in Writers, ev \in 0..MaxExpected, tys \in Batches({"A"}) :
          AppendCheck(w, "s1", ev, tys)
    \/ \E w \in Writers : AppendInsert(w)
    \/ \E w \in Writers : AppendCommit(w)
    \/ \E w \in SessionWriters : Commit(w)
    \/ \E w \in SessionWriters : Rollback(w)

SpecAppend == Init /\ [][NextAppend]_vars

\* the event a stream of version 1 holds; the two writers append events of
\* the other type
SeedRow == [stream |-> "s1", version |-> 1, type |-> "B", gp |-> 1, tx |-> NoTx]

\* the stream is new, or an earlier Append has left it at version 1
InitPair ==
    /\ events \in {{}, {SeedRow}}
    /\ nextGp = Cardinality(events) + 1
    /\ InitRest
    /\ checkpoint = [exists |-> FALSE, pos |-> 0, status |-> "running"]
    /\ name = DefaultName
    /\ config = DefaultConfig
    /\ InitTable

\* the version of the stream at the start
PairVersion == IF SeedRow \in events THEN 1 ELSE 0

\* each writer calls Append once, on the same stream with the version it
\* starts at; the second may do so in a Session, which it opens before the
\* call and ends after it
NextPair ==
    \/ \E w \in SessionWriters : wres[w] = "none" /\ SessionBegin(w)
    \/ \E w \in Writers, tys \in Batches({"A"}) \ {<<>>} :
          wres[w] = "none" /\ AppendCheck(w, "s1", PairVersion, tys)
    \/ \E w \in Writers : AppendInsert(w)
    \/ \E w \in Writers : AppendCommit(w)
    \/ \E w \in SessionWriters : wres[w] # "none" /\ InTx(w) /\ Commit(w)
    \/ \E w \in SessionWriters : wres[w] # "none" /\ InTx(w) /\ Rollback(w)

SpecPair == InitPair /\ [][NextPair]_vars

\* Process on its own: the calls it makes and what they may return
NextProcess ==
    \/ \E es \in ProcessBatches : ProcessCall(es)
    \/ \E fails \in BOOLEAN : ProcessLoadState(fails)
    \/ \E out \in {"value", "nil", "error"} : ProcessApply(out)
    \/ \E fails \in BOOLEAN : ProcessStore(fails)

SpecProcess == Init /\ [][NextProcess]_vars

\* the steps the scheduler owes a worker's goroutine
WorkerStep(w) ==
    \/ \E c \in Conns, qerr \in BOOLEAN : TryAcquireLock(w, c, qerr)
    \/ \E qerr \in BOOLEAN : ReleaseLock(w, qerr)
    \/ ProcessBatchLoad(w)
    \/ ProcessBatchPoll(w)
    \/ \E ok \in BOOLEAN : ProcessBatchProcess(w, ok)
    \/ ProcessBatchSave(w)

\* the Daemons under a fair scheduler: a goroutine that can run does run, a
\* database call and a Process call return
SpecFair ==
    /\ Init
    /\ [][NextDaemon]_vars
    /\ \A w \in DaemonWorkers : WF_vars(WorkerStep(w))

\* the drain loops: a Daemon's worker under the advisory lock and the worker
\* of Daemon.Rebuild, which takes none, over the events one writer appends
NextDrain ==
    \/ AppendOne("w1", "A")
    \/ AppendInsert("w1")
    \/ AppendCommit("w1")
    \/ \E w \in {"d2", RebuildWorker} : WorkerStep(w)
    \/ RebuildDrop
    \/ RebuildReset
    \/ RebuildCreate
    \/ RebuildSetStatus

\* every statement sent to the database returns and every goroutine that
\* can run does run: the writer's INSERT, the Daemon's worker, and the call of
\* Rebuild after its DROP TABLE
SpecDrain ==
    /\ Init
    /\ [][NextDrain]_vars
    /\ WF_vars(AppendInsert("w1") \/ AppendCommit("w1"))
    /\ WF_vars(WorkerStep("d2"))
    /\ WF_vars(\/ RebuildReset
               \/ RebuildCreate
               \/ WorkerStep(RebuildWorker)
               \/ RebuildSetStatus)

\* ================================================================== claims

\* C1: for the subscriber name, at most one worker at a time has had
\* TryAcquireLock return true without a completed unlock.
C1_AtMostOneLockHolder ==
    Cardinality({w \in Workers : granted[w] # NoConn}) <= 1

\* C2: at most one ProcessBatch execution is in progress for the subscriber,
\* the worker Rebuild drives included.
C2_OneProcessBatchAtATime ==
    Cardinality({w \in Workers : InProcessBatch(w)}) <= 1

\* C3: a connection is in the pool only if its session holds no advisory lock.
C3_LockedConnIsPinned ==
    \A c \in Conns : lockCount[c] > 0 => connOwner[c] # NoConn

\* C4: the versions stored for each stream are exactly 1..N for some N >= 0.
C4_VersionsContiguous ==
    \A s \in Streams :
        LET vs == {r.version : r \in {x \in Committed : x.stream = s}}
        IN vs = 1..Cardinality(vs)

\* the error the claim expects of an Append whose expectedVersion is not the
\* stream's version
MismatchError(ev) == IF ev = 0 THEN "StreamExists" ELSE "ConcurrencyConflict"

\* C5: an Append whose expectedVersion differs from the version the stream has
\* when it is called fails with StreamExists (expectedVersion 0) or
\* ConcurrencyConflict (otherwise) and adds no event.
C5_MismatchFails ==
    [][\A w \in Writers :
        /\ \A s \in Streams, ev \in (0 - MaxNegative)..MaxExpected,
              tys \in Batches({"A"}) :
              (/\ AppendCheck(w, s, ev, tys)
               /\ Len(tys) > 0
               /\ sess[w] # "aborted"
               /\ ev # CurrentVersion(w, s)
               /\ wpc'[w] = "idle")
              => (wres'[w] = MismatchError(ev) /\ events' = events)
        /\ (AppendInsert(w) /\ wargs[w].ev # wcur[w])
              => (wres'[w] = MismatchError(wargs[w].ev) /\ events' = events)
      ]_vars

\* C6: events that commit later have larger global positions than every event
\* committed before them (stated for logs whose versions are all positive).
C6_PositionsFollowCommitOrder ==
    [][\A r \in Committed' :
          (/\ r.gp \notin {c.gp : c \in Committed}
           /\ \A x \in events' : x.version >= 1)
              => \A c \in Committed : c.gp < r.gp]_vars

\* C7: no committed event of one of the subscriber's types is left at or
\* behind the saved checkpoint without having been passed to Process.
C7_NoEventLeftBehind ==
    \A r \in Committed :
        (r.type \in EventTypes /\ r.gp <= Load.pos) => r.gp \in delivered

\* C8 as stated, for behaviours in which Rebuild is never called: when a drain
\* ends without error the stored checkpoint is at least the largest position
\* of a matching event that was in the log at its last ProcessBatch.
C8_DrainReachesHead ==
    \A w \in DaemonWorkers :
        (/\ pc[w] = "release"
         /\ drainEnd[w] \in {"empty", "skipped"}
         /\ pc[RebuildWorker] = "idle"
         /\ rebuilds = 0)
        => Load.pos >= pollMax[w]

\* C8 amended: when a drain ends because ProcessBatch polled no event, the
\* position that ProcessBatch loaded is at least the largest position of a
\* matching event committed at the time of the poll.
C8_EmptyPollReachesHead ==
    \A w \in DaemonWorkers :
        (pc[w] = "release" /\ drainEnd[w] = "empty") => pos[w] >= pollMax[w]

\* a drain has ended on an empty poll after reaching a matching event
C8_Witness ==
    \E w \in DaemonWorkers :
        /\ pc[w] = "release"
        /\ drainEnd[w] = "empty"
        /\ pollMax[w] > 0
        /\ pos[w] >= pollMax[w]

\* C9: last_position never decreases except by the Reset of Rebuild.
C9_PositionOnlyForward ==
    [][checkpoint'.pos >= checkpoint.pos \/ RebuildReset]_vars

\* C10: the status only changes running -> dead_letter, anything ->
\* rebuilding, rebuilding -> running (stated for the steps taken while no
\* Rebuild call is in progress).
C10_StatusTransitions ==
    [][\/ pc[RebuildWorker] # "idle"
       \/ pc'[RebuildWorker] # "idle"
       \/ checkpoint'.status = checkpoint.status
       \/ checkpoint.status = "running" /\ checkpoint'.status = "dead_letter"
       \/ checkpoint'.status = "rebuilding"
       \/ checkpoint.status = "rebuilding" /\ checkpoint'.status = "running"
      ]_vars

\* C11: when the stored status is dead_letter or stopped, ProcessBatch returns
\* 0 without error, polls nothing, calls no Process and leaves the checkpoint
\* (position and status) as it is.
C11_SkipsDeadLetter ==
    [][\A w \in Workers :
          (/\ ProcessBatchLoad(w)
           /\ ~cancelled[w]
           /\ checkpoint.exists
           /\ checkpoint.status \in {"dead_letter", "stopped"})
          => (/\ ret'[w] = 0
              /\ drainEnd'[w] = "skipped"
              /\ pc'[w] \notin {"poll", "process", "save"}
              /\ evts'[w] = <<>>
              /\ checkpoint' = checkpoint
              /\ delivered' = delivered
              /\ table' = table)]_vars

\* a drain has ended at the status test of a stopped subscriber
C11_Witness ==
    \E w \in DaemonWorkers :
        /\ pc[w] = "release"
        /\ drainEnd[w] = "skipped"
        /\ checkpoint.status = "stopped"

\* C12: a non-empty polled batch handled without error moves the checkpoint
\* to the position of the last polled event (the largest of the batch) and
\* ProcessBatch returns the number of polled events; a polled batch without a
\* matching event goes to the Save without a Process call.
C12_SavesLastPolled ==
    [][\A w \in Workers :
          /\ (ProcessBatchSave(w) /\ ~cancelled[w])
                => (/\ Len(evts[w]) > 0
                    /\ checkpoint'.exists
                    /\ checkpoint'.pos = evts[w][Len(evts[w])].gp
                    /\ checkpoint'.pos = Max({e.gp : e \in Range(evts[w])})
                    /\ ret'[w] = Len(evts[w]))
          /\ (/\ ProcessBatchPoll(w)
              /\ ~cancelled[w]
              /\ Len(ReadAll(pos[w], batchSize)) > 0
              /\ \A e \in Range(ReadAll(pos[w], batchSize)) :
                     e.type \notin EventTypes)
                => (/\ pc'[w] = "save"
                    /\ evts'[w] = ReadAll(pos[w], batchSize)
                    /\ delivered' = delivered
                    /\ table' = table)]_vars

\* a ProcessBatch has returned n > 0 after saving the position of an event
\* that is not of the subscriber's types
C12_Witness ==
    \E w \in Workers :
        /\ pc[w] = "load"
        /\ ret[w] > 0
        /\ \E r \in Committed :
               r.type \notin EventTypes /\ r.gp = checkpoint.pos

\* the events of batch es are all in the batch a ProcessBatch would poll from
\* the checkpoint as the step leaves it
PolledAgain(es) ==
    /\ Load'.status \notin {"dead_letter", "stopped"}
    /\ \A e \in Range(es) : e \in Range(ReadAll(Load'.pos, batchSize))

\* C13: when Process returns an error (below the dead-letter threshold),
\* ProcessBatch returns an error, last_position is unchanged and the next
\* ProcessBatch of the subscriber polls the events of the failed batch again.
C13_FailedBatchPolledAgain ==
    [][\A w \in Workers :
          (/\ ProcessBatchProcess(w, FALSE)
           /\ ~ShouldDeadLetter(consecutiveFailures'[w]))
          => (/\ drainEnd'[w] = "error"
              /\ ret'[w] = 0
              /\ Load'.pos = Load.pos
              /\ PolledAgain(evts[w]))]_vars

C15_CancelledSaveReplays ==
    [][\A w \in Workers :
          (/\ ProcessBatchSave(w)
           /\ cancelled[w]
           /\ Len(filterEvents(evts[w])) > 0)
          => (/\ drainEnd'[w] = "error"
              /\ checkpoint' = checkpoint
              /\ PolledAgain(evts[w]))]_vars

\* C16: while a Rebuild is between its DROP TABLE and its return, its worker
\* holds the subscriber's advisory lock and no other worker does.
C16_RebuildHoldsLock ==
    pc[RebuildWorker] # "idle"
        => /\ granted[RebuildWorker] # NoConn
           /\ \A w \in DaemonWorkers : granted[w] = NoConn

\* C17: when Rebuild returns success the status is running and every logged
\* event of the subscriber's types up to the checkpoint has been applied to
\* the new table; while the rebuild runs no event is applied to the table a
\* second time.
C17_RebuildDerivesTable ==
    [][/\ RebuildSetStatus
             => /\ checkpoint'.status = "running"
                /\ \A r \in Committed :
                       (r.type \in EventTypes /\ r.gp <= checkpoint'.pos)
                           => r.gp \in table'
                /\ table' \subseteq {r.gp : r \in Committed}
       /\ \A w \in Workers :
             (ProcessBatchProcess(w, TRUE) /\ pc[RebuildWorker] # "idle")
                 => \A e \in Range(filterEvents(evts[w])) : e.gp \notin table
      ]_vars

\* C18: a statement that interpolates the subscriber's name (the DROP TABLE
\* and CREATE TABLE of Rebuild, the processing store's statements of a
\* Process call) is only issued for a name the pattern accepts.
C18_OnlyValidNamesInSQL ==
    [][(\/ RebuildDrop
        \/ RebuildCreate
        \/ \E w \in Workers : ProcessBatchProcess(w, TRUE))
          => ValidateCollectionName(name)]_vars

C20_DeadLetterTakesNoLock ==
    [][Load.status = "dead_letter"
          => /\ \A w \in DaemonWorkers : lockConn[w] = NoConn
                    => lockConn'[w] = NoConn
             /\ \A w \in Workers, ok \in BOOLEAN : ~ProcessBatchProcess(w, ok)
      ]_vars

\* C21: every batch a Daemon's worker polls holds at most the batchSize the
\* Daemon was configured with.
C21_BatchWithinConfigured ==
    \A w \in DaemonWorkers : Len(evts[w]) <= config.batchSize

\* C22: ticks alone keep a running subscriber up to date: when the drain of a
\* tick starts and finds no event to poll after the checkpoint, every
\* committed event of the subscriber's types has been passed to Process.
C22_TickPicksUpCommitted ==
    [][\A w \in DaemonWorkers, c \in Conns :
          (/\ TryAcquireLock(w, c, FALSE)
           /\ pc'[w] = "load"
           /\ Load.status \notin {"dead_letter", "stopped"}
           /\ Len(Poll(Load.pos)) = 0)
          => \A r \in Committed : r.type \in EventTypes => r.gp \in delivered
      ]_vars

\* the Update of document "x" with version field v is executed: its
\* transaction is not aborted and the table is there
Executes(w) == sess[w] # "aborted" /\ TableAfterEnsure(w)

\* C23 as stated: once an Update of a versioned document against pre-version
\* v has succeeded, every other Update against v fails with
\* ConcurrencyConflict and changes nothing; until then an Update against the
\* version the row has succeeds and leaves the row at v + 1.
C23_OneUpdateWins ==
    [][\A w \in Writers, v \in 0..MaxVersion, d \in Data :
          (Update(w, "x", v, d) /\ versioned /\ Executes(w))
          => IF \E u \in won : u.id = "x" /\ u.v = v
             THEN /\ wres'[w] = "ConcurrencyConflict"
                  /\ docs' = docs
                  /\ pend' = pend
             ELSE (VisibleRow(w, "x").present /\ VisibleRow(w, "x").version = v)
                  => /\ wres'[w] = "ok"
                     /\ VisibleRow(w, "x")'.version = v + 1
      ]_vars

\* C23 amended: as C23, for the Updates that no Session rollback has undone.
C23_OneLiveUpdateWins ==
    [][\A w \in Writers, v \in 0..MaxVersion, d \in Data :
          (Update(w, "x", v, d) /\ versioned /\ Executes(w))
          => IF \E u \in won : u.id = "x" /\ u.v = v /\ u.tx # "undone"
             THEN /\ wres'[w] = "ConcurrencyConflict"
                  /\ docs' = docs
                  /\ pend' = pend
             ELSE (VisibleRow(w, "x").present /\ VisibleRow(w, "x").version = v)
                  => /\ wres'[w] = "ok"
                     /\ VisibleRow(w, "x")'.version = v + 1
      ]_vars

\* an Update against v has won and another one against v has lost
C23_Witness ==
    \E u \in won, w \in Writers :
        /\ u.tx = NoTx
        /\ docs[u.id].version = u.v + 1
        /\ wres[w] = "ConcurrencyConflict"
        /\ cver[w] = u.v

\* C24: every successful Update raises the version column of the row by
\* exactly 1, whether or not the type has a version field.
C24_UpdateAddsOne ==
    [][\A w \in Writers, v \in 0..MaxVersion, d \in Data :
          (Update(w, "x", v, d) /\ wres'[w] = "ok")
          => VisibleRow(w, "x")'.version = VisibleRow(w, "x").version + 1
      ]_vars

\* C25: an executed Update that matches no row returns ConcurrencyConflict
\* for a type with a version field (also when the id has no row) and NotFound
\* for a type without one, and leaves the rows and the caller's version field
\* as they are.
C25_NoRowMatched ==
    [][\A w \in Writers, v \in 0..MaxVersion, d \in Data :
          (/\ Update(w, "x", v, d)
           /\ Executes(w)
           /\ ~(/\ VisibleRow(w, "x").present
                /\ versioned => VisibleRow(w, "x").version = v))
          => (/\ wres'[w] = IF versioned THEN "ConcurrencyConflict"
                            ELSE "NotFound"
              /\ docs' = docs
              /\ pend' = pend
              /\ cver'[w] = v)
      ]_vars

\* an Update of a versioned document whose id has no row has returned
\* ConcurrencyConflict with the caller's version untouched
C25_Witness ==
    \E w \in Writers :
        /\ versioned
        /\ ~VisibleRow(w, "x").present
        /\ wres[w] = "ConcurrencyConflict"
        /\ cver[w] > 0

\* C26: an executed Insert whose id has a row fails with DuplicateID and
\* leaves the rows as they are.
C26_DuplicateInsert ==
    [][\A w \in Writers, id \in Ids, d \in Data :
          (Insert(w, id, d) /\ Executes(w) /\ VisibleRow(w, id).present)
          => (/\ wres'[w] = "DuplicateID"
              /\ docs' = docs
              /\ pend' = pend)
      ]_vars

\* C27: an executed LoadMany returns the requested documents that are
\* present; its error is nil exactly when every requested id is present and
\* is otherwise a BatchError whose entries are the absent ids.
C27_LoadManyReportsAbsent ==
    [][\A w \in Writers, ids \in IdLists :
          (LoadMany(w, ids) /\ Executes(w))
          => LET present == {id \in Range(ids) : VisibleRow(w, id).present}
                 absent == Range(ids) \ present
             IN /\ many'.docs = present
                /\ many'.err = "nil" <=> absent = {}
                /\ many'.err # "nil"
                      => many'.err = "BatchError" /\ many'.errs = absent
      ]_vars

\* the events of w's open transaction as the other backends would see them
Published(w) == {[r EXCEPT !.tx = NoTx] : r \in {x \in events : x.tx = w}}

\* C28: the document rows and events written through a Session are published
\* to the other backends all together by the step of its successful Commit;
\* no other step publishes any of them, a write inside the Session changes
\* nothing the others see, and a Rollback or Close discards them all.
C28_SessionWritesAtomic ==
    [][\A w \in SessionWriters :
          InTx(w)
          => /\ IF Commit(w) /\ sess[w] = "open"
                THEN /\ \A id \in DOMAIN pend[w] : docs'[id] = pend[w][id]
                     /\ Published(w) \subseteq Committed'
                ELSE /\ \A id \in DOMAIN pend[w] : docs'[id] = docs[id]
                     /\ Published(w) \cap Committed' = {}
             /\ (\/ \E id \in Ids, d \in Data : Insert(w, id, d)
                 \/ \E v \in 0..MaxVersion, d \in Data : Update(w, "x", v, d)
                 \/ AppendInsert(w))
                => docs' = docs /\ Committed' = Committed
             /\ (Rollback(w) \/ Close(w))
                => /\ pend'[w] = <<>>
                   /\ \A r \in events' : r.tx # w
                   /\ docs' = docs
                   /\ Committed' = Committed
      ]_vars

\* a Session that has written a document and an event has committed
C28_Witness ==
    \E w \in SessionWriters :
        /\ sess[w] = "closed"
        /\ wres[w] = "ok"
        /\ docs["y"].present
        /\ \E r \in Committed : r.stream = StreamOf(w)

\* C29: on a closed Session, Commit fails with SessionClosed and Rollback and
\* Close return success, all without touching the transaction; the
\* transaction of a Session is ended at most once.
C29_ClosedSessionStaysClosed ==
    /\ [](\A w \in SessionWriters : txEnds[w] <= 1)
    /\ [][\A w \in SessionWriters :
            sess[w] = "closed"
            => /\ Commit(w) => wres'[w] = "SessionClosed"
               /\ (Rollback(w) \/ Close(w)) => wres'[w] = "ok"
               /\ (Commit(w) \/ Rollback(w) \/ Close(w))
                  => /\ sess'[w] = "closed"
                     /\ txEnds' = txEnds
                     /\ events' = events
                     /\ docs' = docs
                     /\ pend' = pend
                     /\ tableExists' = tableExists
                     /\ tableTx' = tableTx
        ]_vars

\* a Commit on a closed Session has failed and its transaction was ended once
C29_Witness ==
    \E w \in SessionWriters :
        /\ sess[w] = "closed"
        /\ wres[w] = "SessionClosed"
        /\ txEnds[w] = 1

\* C30: no call made through a Session changes the Store's memo; so when a
\* Session that created the table is rolled back, the Store's memo does not
\* hold the table, and the next Store-backed operation issues CREATE TABLE IF
\* NOT EXISTS and finds the table.
C30_SessionLeavesStoreMemo ==
    [][\A w \in SessionWriters :
          InTx(w)
          => /\ (\/ \E id \in Ids, d \in Data : Insert(w, id, d)
                 \/ Commit(w)
                 \/ Rollback(w))
                => memo' = memo
             /\ ((Commit(w) \/ Rollback(w)) /\ tableTx = w /\ ~tableExists')
                => /\ ~memo'
                   /\ \A u \in Writers \ SessionWriters :
                          TableAfterEnsure(u)'
      ]_vars

\* C31: no CREATE INDEX CONCURRENTLY is sent through an executor whose
\* inTransaction() is true, by a collection entry point or by ReadAll.
C31_NoConcurrentIndexInTx ==
    \A w \in Writers :
        sent[w].inTransaction
        => CreateIndexConcurrently \notin sent[w].statements

C33_InvalidFailsBeforeStatements ==
    [][\A w \in Writers :
          /\ (Insert(w, "x", "p") /\ ~ValidateCollectionName(name))
             => /\ wres'[w] = "InvalidArgument"
                /\ sent'[w].statements = {}
          /\ \A field \in Fields, op \in Ops :
                (/\ \/ Execute(w, field, op)
                    \/ Count(w, field, op)
                    \/ Exists(w, field, op)
                 /\ \/ ~ValidateCollectionName(name)
                    \/ op \notin allowedOps
                    \/ resolveField(field).err)
                => /\ wres'[w] = "InvalidArgument"
                   /\ sent'[w].statements = {}
      ]_vars

\* C34: the read-model effects of a batch and its checkpoint advance take
\* effect together: outside the ProcessBatch call that is working on it, no
\* event has its effect in the read model while the checkpoint is before it.
C34_EffectsWithCheckpoint ==
    \A g \in table :
        \/ g <= Load.pos
        \/ \E w \in Workers :
              /\ pc[w] \in {"process", "save"}
              /\ \E i \in 1..Len(evts[w]) : evts[w][i].gp = g

\* an Append that the version read turns away
ReadRejects(w, s, ev, tys) ==
    /\ Len(tys) > 0
    /\ sess[w] # "aborted"
    /\ ev > 0
    /\ CurrentVersion(w, s) # ev
    /\ AppendCheck(w, s, ev, tys)

\* C35: Append without its version read behaves as Append does: whenever the
\* read turns an Append with expectedVersion > 0 away, the INSERT alone would
\* have returned the same result and left the same events (and the caller's
\* transaction as it is).
C35_ReadIsRedundant ==
    [][\A w \in Writers, s \in Streams, ev \in 1..MaxExpected,
         tys \in Batches({"A"}) :
          ReadRejects(w, s, ev, tys)
          => /\ InsertOutcome(w, s, ev, tys).res = wres'[w]
             /\ InsertOutcome(w, s, ev, tys).events = events'
             /\ InsertOutcome(w, s, ev, tys).sess = sess'[w]
      ]_vars

\* C35 as amended: the same for a Store-level Append whose expectedVersion is
\* not above the version of the stream.
C35_ReadIsRedundantBelow ==
    [][\A w \in Writers, s \in Streams, ev \in 1..MaxExpected,
         tys \in Batches({"A"}) :
          (/\ ev <= CurrentVersion(w, s)
           /\ ~InTx(w)
           /\ ReadRejects(w, s, ev, tys))
          => /\ InsertOutcome(w, s, ev, tys).res = wres'[w]
             /\ InsertOutcome(w, s, ev, tys).events = events'
             /\ InsertOutcome(w, s, ev, tys).sess = sess'[w]
      ]_vars

\* a Store-level Append below the version of its stream has been turned away
\* by the read: no position has been used up by a failed INSERT
C35_Witness ==
    \E w \in Writers \ SessionWriters, s \in Streams :
        /\ wres[w] = "ConcurrencyConflict"
        /\ wpc[w] = "idle"
        /\ CurrentVersion(w, s) > MaxExpected
        /\ \A x \in Streams \ {s} : CurrentVersion(w, x) = 0
        /\ nextGp = Cardinality(events) + 1

\* the result a unique violation is mapped to
ConflictKind(ev) == IF ev = 0 THEN "StreamExists" ELSE "ConcurrencyConflict"

\* the INSERT part of the writer's Append returns in this step
Returns(w) == wpc[w] # "idle" /\ wpc'[w] = "idle"

\* the writer's Append has returned
Returned(w) == wpc[w] = "idle" /\ wres[w] # "none"

\* the Session of the writer has ended and the stream holds no event at the
\* version the Appends write first: its Append has been rolled back
Undone(w) ==
    /\ sess[w] = "closed"
    /\ ~\E r \in events :
          r.stream = "s1" /\ r.version = PairVersion + 1 /\ r.tx = NoTx

\* C36: of two Appends to one stream with the same expectedVersion that both
\* get to their INSERT, exactly one succeeds; the other fails with
\* ConcurrencyConflict (StreamExists for expectedVersion 0) and stores nothing.
C36_OneAppendWins ==
    [][\A w \in Writers : \A x \in Writers \ {w} :
          (Returned(x) /\ Returns(w))
          => \/ /\ wres[x] = "ok"
                /\ wres'[w] = ConflictKind(PairVersion)
                /\ ~\E r \in events' : r.tx = w
             \/ /\ wres[x] = ConflictKind(PairVersion)
                /\ wres'[w] = "ok"
      ]_vars

\* C36 as amended: the same unless the Append that returned first has been
\* undone by the rollback of its Session.
C36_OneLiveAppendWins ==
    [][\A w \in Writers : \A x \in Writers \ {w} :
          (Returned(x) /\ ~Undone(x) /\ Returns(w))
          => \/ /\ wres[x] = "ok"
                /\ wres'[w] = ConflictKind(PairVersion)
                /\ ~\E r \in events' : r.tx = w
             \/ /\ wres[x] = ConflictKind(PairVersion)
                /\ wres'[w] = "ok"
      ]_vars

\* both writers have passed the version read of the stream at version 1, the
\* first has inserted and committed, the second is at its INSERT
C36_Witness ==
    /\ PairVersion = 1
    /\ wres["w1"] = "ok"
    /\ wpc["w1"] = "idle"
    /\ wpc["w2"] = "insert"
    /\ wcur["w2"] = 1

\* C37: an error of LoadState, UpsertState or DeleteState ends the Process
\* call, which returns it; the applier gets a nil state only when the stream
\* has no read model.
C37_StoreErrorsAbort ==
    [][/\ (proc.pc \in {"load", "delete", "upsert"} /\ proc'.err # "nil")
           => (proc'.pc = "done" /\ proc'.ret = proc'.err)
       /\ (proc.pc = "load" /\ proc'.pc = "apply" /\ ~proc'.state.present)
           => ~states[proc.evts[proc.i].stream].present
      ]_vars

\* C38: while the Store's memo holds the table, the table exists for the pool
\* connections, also between the statements of a Rebuild; an operation that
\* skips CREATE TABLE on the memo's word finds the table.
C38_MemoImpliesTable == memo => tableExists

\* the worker is inside the loop of drainBatches or of Rebuild
InLoop(w) == pc[w] \in {"load", "poll", "process", "save"}

\* C39: a ProcessBatch that returns n > 0 and no error leaves the checkpoint
\* above the position it loaded; a drain loop over a log that stops growing
\* ends.
C39_DrainLoopsEnd ==
    /\ [][\A w \in Workers :
             (pc[w] = "save" /\ pc'[w] = "load")
             => (ret'[w] > 0 /\ checkpoint'.pos > pos[w])
       ]_vars
    /\ \A w \in Workers : InLoop(w) ~> ~InLoop(w)

\* the worker of Rebuild has gone round its loop over a log of two events
\* and come to the end of it
C39_Witness ==
    /\ pc[RebuildWorker] = "setstatus"
    /\ checkpoint.pos = 2
    /\ drainEnd[RebuildWorker] = "empty"

\* the event the loop of Process handled before the one it is at
Preceding(p) ==
    LET js == {j \in 1..(p.i - 1) : p.evts[j].type \in EventTypes}
    IN IF js = {} THEN 0 ELSE CHOOSE j \in js : \A k \in js : k <= j

\* C40: the events of a stream reach Process in the order of their versions,
\* and within a batch the applier of an event is handed the read-model state
\* that the preceding event of the same stream has left.
C40_ApplierSeesPrecedingState ==
    [][(/\ proc.pc = "load"
        /\ proc'.pc = "apply"
        /\ Preceding(proc) > 0
        /\ proc.evts[Preceding(proc)].stream = proc.evts[proc.i].stream)
       => proc'.state = proc.result
      ]_vars

====
